---- MODULE Spec2Model ----
(***************************************************************************)
(* Model of mttl/models/expert_model.py: the expert registry kept by       *)
(* MultiExpertMixin (experts_infos, the expert containers of the base      *)
(* graph, the selectors cache, the lazily created lock) and the calls that *)
(* change it.                                                              *)
(*                                                                         *)
(* Spec        one caller, every call runs to completion (one action each) *)
(* SpecThreads several threads inside add_expert_instance at once, plus    *)
(*             the mutators that take no lock                              *)
(* SpecBatch   add_experts_from_library: the pool workers and the caller   *)
(***************************************************************************)
EXTENDS Integers, FiniteSets, Sequences, TLC

\* ------------------------------------------------------------------ bounds
NumNames == 2
Capacity == 1
NumThreads == 2
TiesLen == 3
MaxDim == 2

\* ThreadPoolExecutor(max_workers=16)
max_workers == 16

\* ------------------------------------------------------------------ values
None == "None"

NamePool == <<"e0", "e1", "e2", "e3", "e4">>
Names == {NamePool[i] : i \in 1..NumNames}

\* the injection points of the base graph, in named_modules() order
Layers == <<"l1", "l2", "l3", "l4">>
LayerSet == {Layers[i] : i \in 1..Len(Layers)}

Modifiers == {"lora", "skilled"}

\* parameters an adapter holds at one injection point
Params == {"lora_a", "lora_b"}

\* expert_config: the modifier type and the injection points it matches
ExpertConfigs ==
    [ lora_all |-> [modifier_name |-> "lora",    modify_layers |-> {"l1", "l2"}],
      skilled  |-> [modifier_name |-> "skilled", modify_layers |-> {"l3"}],
      skilled_l4  |-> [modifier_name |-> "skilled", modify_layers |-> {"l4"}],
      skilled_all |-> [modifier_name |-> "skilled", modify_layers |-> {"l3", "l4"}],
      nomatch  |-> [modifier_name |-> "lora",    modify_layers |-> {}] ]
\* capacity of a container, by modifier type (0: no limit)
ContainerCapacity(m) == IF m = "skilled" THEN Capacity ELSE 0

DefaultSel == "default"

\* AutoSelectorConfig values: None, or a MultiSelectorConfig (a single
\* SelectorConfig has kind "single")
NoSelectorConfig == [kind |-> "none", single |-> None, multi |-> [m \in Modifiers |-> None]]
MultiSelectorConfig(f) == [kind |-> "multi", single |-> None, multi |-> f]
SingleSelectorConfig(c) == [kind |-> "single", single |-> c, multi |-> [m \in Modifiers |-> None]]

\* the selector_config a model can be constructed with
InitSelectorConfigs ==
    { NoSelectorConfig,
      SingleSelectorConfig("s1"),
      MultiSelectorConfig([m \in Modifiers |-> IF m = "lora" THEN "s1" ELSE None]) }

VARIABLES
    config,            \* self.config.selector_config
    containers,        \* layer -> the ExpertContainer at that injection point
    experts_infos,     \* self._experts_infos: name -> ExpertInfo (its config id)
    selector_cache,    \* self._selector_cache: modifier type -> live selector
    selector_config,   \* self._selector_config (set: the attribute exists)
    infos_attr,        \* hasattr(self, "_experts_infos")
    cacheAttr,         \* self._selector_cache: None, or the SelectorsCache object
    lockAttr,          \* self._lock: None, or the Lock object it refers to
    lockHeld,          \* the Lock objects currently held
    last,              \* the call of the single caller that completed last
    pc,                \* thread -> where it is in add_expert_instance
    th,                \* thread -> its expert, its Lock object, its outcome
    library,           \* the ExpertLibrary of a bulk load: key -> config
    batch,             \* the caller inside add_experts_from_library
    ties,              \* one TIES merge: its inputs, its step, its tensors
    weighted,          \* one weighted linear merge: its inputs and its outputs
    tvapply,           \* one task_vector_apply call: parameters, deltas, position
    adapters,          \* the disabled containers, and a caller's with-block
    moe_num_experts_attr    \* self.moe_num_experts of a MoEModel: <<>> until it is set

registry == <<containers, experts_infos, infos_attr, cacheAttr, selector_cache,
              selector_config>>
auxVars == <<weighted, tvapply, adapters, moe_num_experts_attr>>
threadVars == <<pc, th, library, batch, ties, auxVars>>
vars == <<config, containers, experts_infos, infos_attr, cacheAttr, selector_cache,
          selector_config, lockAttr, lockHeld, last, pc, th, library, batch, ties,
          weighted, tvapply, adapters, moe_num_experts_attr>>

NoContainer == [exists |-> FALSE, expert_infos |-> {}, default_expert_name |-> None]
NoSelector == [live |-> FALSE, config |-> None]
NoRet == [none |-> TRUE, name |-> None, keys |-> {}]
NoLast == [op |-> "init", name |-> None, arg |-> None, caller_kept |-> TRUE,
           action |-> None, exc |-> None, ret |-> NoRet, cleared |-> {},
           attempted |-> <<>>, full_at |-> <<>>]

Threads == 1..NumThreads
NoCall == [op |-> None, name |-> None, cfg |-> None, lk |-> None, cache |-> None,
           exc |-> None]
NoLibrary == [k \in {} |-> None]
NoBatch == [pc |-> "idle", yielded |-> {}, exc |-> None]
NoWeighted == [pc |-> "idle", experts |-> <<>>, weights |-> <<>>,
               uniform |-> <<>>, weighted |-> <<>>]
NoTvApply == [pc |-> "idle", params |-> <<>>, task_merged_vectors |-> <<>>,
              given |-> <<>>, exc |-> None]
NoAdapters == [pc |-> "idle", disabled |-> {}, exc |-> None]
NoTies == [pc |-> "idle", tv_flat_checks |-> <<>>, top_k |-> 0, merge_func |-> None,
           updated_checks |-> <<>>, final_signs |-> <<>>, merged_tv |-> <<>>]

\* ------------------------------------------------------------- properties
\* experts_names: list(self.experts_infos.keys())
experts_names == DOMAIN experts_infos

\* experts_containers: the containers found in the module tree, in order
experts_containers(conts) == SelectSeq(Layers, LAMBDA l : conts[l].exists)

\* selector_config property: reading it creates the attribute from the config
SelectorConfigRead(sc) == IF sc.set THEN sc ELSE [set |-> TRUE, val |-> config]

\* _get_selector_config(model_modifier)
GetSelectorConfig(sc, m) ==
    IF sc.kind = "none" THEN None
    ELSE IF sc.kind = "multi" THEN sc.multi[m]
    ELSE sc.single

\* ------------------------------------------------------------- containers
\* the shared selector of a modifier type: the cached one, created if absent
GetOrCreateSelector(cache, m, selcfg) ==
    IF cache[m].live THEN cache
    ELSE [cache EXCEPT ![m] =
            [live |-> TRUE, config |-> IF selcfg = None THEN DefaultSel ELSE selcfg]]

\* ExpertContainer: one expert attached at one injection point.
\*   route: a new entry keyed by the expert's name (ContainerFull past the
\*          capacity of the modifier type), the default pointer if is_default
\*   merge: folded into the base weights, the routable set is left alone;
\*          is_default then needs the name to be hosted already
Inject(c, name, m, action, is_default) ==
    IF action = "route"
    THEN IF /\ ContainerCapacity(m) > 0
            /\ name \notin c.expert_infos
            /\ Cardinality(c.expert_infos) >= ContainerCapacity(m)
         THEN [container |-> c, exc |-> "ContainerFull"]
         ELSE [container |->
                  [exists |-> TRUE,
                   expert_infos |-> c.expert_infos \cup {name},
                   default_expert_name |->
                       IF is_default THEN name ELSE c.default_expert_name],
               exc |-> None]
    ELSE IF is_default
         THEN IF name \in c.expert_infos
              THEN [container |-> [c EXCEPT !.default_expert_name = name],
                    exc |-> None]
              ELSE [container |-> c, exc |-> "ExpertNotFound"]
         ELSE [container |-> c, exc |-> None]

\* <container class>.modify_transformer: the fan-out over the injection points
\* the expert's config matches, in module order, stopping at the first failure
RECURSIVE ModifyLayersFrom(_, _, _, _, _, _)
ModifyLayersFrom(i, st, inst, action, is_default, selcfg) ==
    IF i > Len(Layers) \/ st.exc # None THEN st
    ELSE LET l == Layers[i]
             ec == ExpertConfigs[inst.cfg]
         IN IF l \notin ec.modify_layers
            THEN ModifyLayersFrom(i + 1, st, inst, action, is_default, selcfg)
            ELSE LET r == Inject(st.containers[l], inst.name, ec.modifier_name,
                                 action, is_default)
                     st1 == [containers |-> [st.containers EXCEPT ![l] = r.container],
                             cache |-> IF r.exc = None /\ action = "route"
                                       THEN GetOrCreateSelector(st.cache,
                                                ec.modifier_name, selcfg)
                                       ELSE st.cache,
                             exc |-> r.exc]
                 IN ModifyLayersFrom(i + 1, st1, inst, action, is_default, selcfg)

ModifyTransformer(conts, cache, inst, action, is_default, selcfg) ==
    ModifyLayersFrom(1, [containers |-> conts, cache |-> cache, exc |-> None],
                     inst, action, is_default, selcfg)

\* clear_containers: every container gives its place back to the base layer
ClearContainers == [l \in LayerSet |-> NoContainer]

\* ------------------------------------------------------ get_expert_instance
\* the keys one hosting container contributes: "{layer_name}.{k}"
LayerKeys(l) == {<<l, k>> : k \in Params}

\* the loop over experts_containers: expert_params accumulates, retrieved_expert
\* is reset for every container visited
RECURSIVE RetrieveFrom(_, _, _, _, _)
RetrieveFrom(i, cs, conts, expert_name, acc) ==
    IF i > Len(cs) THEN acc.retrieved
    ELSE LET l == cs[i] IN
         IF expert_name \in conts[l].expert_infos
         THEN LET params == acc.expert_params \cup LayerKeys(l) IN
              RetrieveFrom(i + 1, cs, conts, expert_name,
                  [expert_params |-> params,
                   retrieved |-> [none |-> FALSE, name |-> expert_name, keys |-> params]])
         ELSE RetrieveFrom(i + 1, cs, conts, expert_name,
                  [expert_params |-> acc.expert_params, retrieved |-> NoRet])

GetExpertInstanceOf(conts, infos, expert_name) ==
    LET cs == experts_containers(conts) IN
    IF expert_name \notin DOMAIN infos \/ Len(cs) = 0
    THEN [exc |-> "AssertionError", ret |-> NoRet]
    ELSE [exc |-> None,
          ret |-> RetrieveFrom(1, cs, conts, expert_name,
                               [expert_params |-> {}, retrieved |-> NoRet])]

\* ------------------------------------------------------ add_expert_instance
\* Expert.clone(): an independent copy of the caller's object
Clone(expert) == expert

\* (mutant) the caller's object itself is renamed
RenamedInPlace(expert, expert_name) ==
    IF expert_name # None
    THEN [caller |-> [expert EXCEPT !.name = expert_name],
          inst |-> [expert EXCEPT !.name = expert_name]]
    ELSE [caller |-> expert, inst |-> expert]

\* lines 365-370: with expert_name given the call works on a renamed clone
RenamedInstance(expert, expert_name) ==
    IF expert_name # None
    THEN [caller |-> expert, inst |-> [Clone(expert) EXCEPT !.name = expert_name]]
    ELSE [caller |-> expert, inst |-> expert]

\* the registry as one value, so that a step of a call is a function on it
Reg == [containers |-> containers, experts_infos |-> experts_infos,
        infos_attr |-> infos_attr, cache_attr |-> cacheAttr,
        selector_cache |-> selector_cache, selector_config |-> selector_config]

SetReg(r) ==
    /\ containers' = r.containers
    /\ experts_infos' = r.experts_infos
    /\ infos_attr' = r.infos_attr
    /\ cacheAttr' = r.cache_attr
    /\ selector_cache' = r.selector_cache
    /\ selector_config' = r.selector_config

\* the selector_cache property: the SelectorsCache object is created when the
\* attribute is absent
SelectorCacheProperty(attr, fresh) == IF attr = None THEN fresh ELSE attr

\* lines 373-383: resolve the selector config, inject at every matching point
CriticalInject(r, inst, action, is_default) ==
    LET sc == SelectorConfigRead(r.selector_config)
        selcfg == GetSelectorConfig(sc.val, ExpertConfigs[inst.cfg].modifier_name)
        mt == ModifyTransformer(r.containers, r.selector_cache, inst, action,
                                is_default, selcfg)
    IN [reg |-> [r EXCEPT !.containers = mt.containers,
                          !.cache_attr = SelectorCacheProperty(r.cache_attr, "C0"),
                          !.selector_cache = mt.cache,
                          !.selector_config = sc],
        exc |-> mt.exc]

\* the experts_infos property read when the attribute exists: the entry goes
\* into the dict the attribute refers to
RecordStore(r, inst) ==
    [r EXCEPT !.experts_infos = (inst.name :> inst.cfg) @@ r.experts_infos]

\* the experts_infos property read when hasattr was False: the attribute is
\* set to a new dict, and the entry goes into that one
RecordCreate(r, inst) ==
    [r EXCEPT !.experts_infos = (inst.name :> inst.cfg), !.infos_attr = TRUE]

\* line 388: the reloaded instance
RecordGet(r, inst) == GetExpertInstanceOf(r.containers, r.experts_infos, inst.name)

\* line 386 run in one piece
RecordEntry(r, inst) ==
    IF r.infos_attr THEN RecordStore(r, inst) ELSE RecordCreate(r, inst)

\* (mutant) the entry is recorded whatever the action
CriticalRecordAlways(r, inst, action) ==
    LET r1 == RecordEntry(r, inst)
        gi == RecordGet(r1, inst)
    IN [reg |-> r1, exc |-> gi.exc, ret |-> gi.ret]

\* lines 385-389: the registry entry and the reloaded instance
CriticalRecord(r, inst, action) ==
    IF action # "merge"
    THEN LET r1 == RecordEntry(r, inst)
             gi == RecordGet(r1, inst)
         IN [reg |-> r1, exc |-> gi.exc, ret |-> gi.ret]
    ELSE [reg |-> r, exc |-> None, ret |-> NoRet]

\* the lock property: the Lock object is created when the attribute is absent
LockProperty(attr, fresh) == IF attr = None THEN fresh ELSE attr

\* (mutant) the lock is released on the normal path only
WithExitOnReturn(held, lk, exc) == IF exc # None THEN held ELSE held \ {lk}

\* leaving the with-block releases the lock, on return and on an exception
WithExit(held, lk, exc) == held \ {lk}

\* the whole body under the lock
CriticalSection(r, inst, action, is_default) ==
    LET a == CriticalInject(r, inst, action, is_default) IN
    IF a.exc # None THEN [reg |-> a.reg, exc |-> a.exc, ret |-> NoRet]
    ELSE CriticalRecord(a.reg, inst, action)

AddExpertInstance(expert, expert_name, action, is_default) ==
    \E rn \in {RenamedInstance(expert, expert_name)} :
    \E cs \in {CriticalSection(Reg, rn.inst, action, is_default)} :
    LET lk == LockProperty(lockAttr, "L0")
    IN /\ lk \notin lockHeld
       /\ lockAttr' = lk
       /\ lockHeld' = WithExit(lockHeld \cup {lk}, lk, cs.exc)
       /\ SetReg(cs.reg)
       /\ last' = [op |-> "add_expert_instance", name |-> rn.inst.name,
                   arg |-> expert_name,
                   caller_kept |-> (rn.caller.name = expert.name),
                   action |-> action, exc |-> cs.exc, ret |-> cs.ret,
                   cleared |-> {}, attempted |-> <<>>, full_at |-> <<>>]
       /\ UNCHANGED <<config, threadVars>>

\* ------------------------------------------------------- the other calls
Done(op, name, exc, ret) ==
    [NoLast EXCEPT !.op = op, !.name = name, !.exc = exc, !.ret = ret]

GetExpertInstance(expert_name) ==
    LET gi == GetExpertInstanceOf(containers, experts_infos, expert_name) IN
    /\ last' = Done("get_expert_instance", expert_name, gi.exc, gi.ret)
    /\ infos_attr' = TRUE
    /\ UNCHANGED <<config, containers, experts_infos, cacheAttr, selector_cache,
                   selector_config, lockAttr, lockHeld, threadVars>>

\* set_default_expert: stops at the first container that does not host the name
RECURSIVE SetDefaultFrom(_, _, _, _)
SetDefaultFrom(i, cs, st, expert_name) ==
    IF i > Len(cs) \/ st.exc # None THEN st
    ELSE LET l == cs[i] IN
         IF expert_name \in st.containers[l].expert_infos
         THEN SetDefaultFrom(i + 1, cs,
                  [st EXCEPT !.containers[l].default_expert_name = expert_name],
                  expert_name)
         ELSE [st EXCEPT !.exc = "ValueError"]

SetDefaultExpertOf(conts, infos, expert_name) ==
    IF expert_name \notin DOMAIN infos
    THEN [containers |-> conts, exc |-> "ValueError"]
    ELSE SetDefaultFrom(1, experts_containers(conts),
                        [containers |-> conts, exc |-> None], expert_name)

SetDefaultExpert(expert_name) ==
    LET r == SetDefaultExpertOf(containers, experts_infos, expert_name) IN
    /\ containers' = r.containers
    /\ last' = Done("set_default_expert", expert_name, r.exc, NoRet)
    /\ infos_attr' = TRUE
    /\ UNCHANGED <<config, experts_infos, cacheAttr, selector_cache, selector_config,
                   lockAttr, lockHeld, threadVars>>

UnsetDefaultExpertOf(conts) ==
    [l \in LayerSet |->
        IF conts[l].exists THEN [conts[l] EXCEPT !.default_expert_name = None]
        ELSE conts[l]]

UnsetDefaultExpert ==
    /\ containers' = UnsetDefaultExpertOf(containers)
    /\ last' = Done("unset_default_expert", None, None, NoRet)
    /\ UNCHANGED <<config, experts_infos, infos_attr, cacheAttr, selector_cache,
                   selector_config, lockAttr, lockHeld, threadVars>>

EmptyCache == [m \in Modifiers |-> NoSelector]
EmptyInfos == [n \in {} |-> None]

\* (mutant) the selectors cache survives the clear
ClearExpertsKeepCache(r) ==
    [containers |-> ClearContainers, experts_infos |-> EmptyInfos,
     infos_attr |-> TRUE,
     cache_attr |-> SelectorCacheProperty(r.cache_attr, "C0"),
     selector_cache |-> r.selector_cache,
     selector_config |-> [set |-> TRUE, val |-> NoSelectorConfig]]

\* clear_experts: clear_containers, both maps cleared, selector_config = None
ClearExpertsOf(r) ==
    [containers |-> ClearContainers, experts_infos |-> EmptyInfos,
     infos_attr |-> TRUE,
     cache_attr |-> SelectorCacheProperty(r.cache_attr, "C0"),
     selector_cache |-> EmptyCache,
     selector_config |-> [set |-> TRUE, val |-> NoSelectorConfig]]

ClearExperts ==
    /\ SetReg(ClearExpertsOf(Reg))
    /\ last' = [Done("clear_experts", None, None, NoRet) EXCEPT
                    !.cleared = experts_names]
    /\ UNCHANGED <<config, lockAttr, lockHeld, threadVars>>

DeleteExpertContainerOf(r) ==
    [r EXCEPT !.containers = ClearContainers, !.experts_infos = EmptyInfos,
              !.infos_attr = TRUE,
              !.cache_attr = SelectorCacheProperty(r.cache_attr, "C0"),
              !.selector_cache = EmptyCache]

DeleteExpertContainer ==
    /\ SetReg(DeleteExpertContainerOf(Reg))
    /\ last' = Done("delete_expert_container", None, None, NoRet)
    /\ UNCHANGED <<config, lockAttr, lockHeld, threadVars>>

\* the modifier type of the experts a container holds
ContainerModifier(l) == IF l \in {"l3", "l4"} THEN "skilled" ELSE "lora"

\* replace_selector_for_container(..., self.selector_cache, force_replace=True):
\* a fresh selector for the containers of the modifier type
ReplaceSelector(r, modifier_name, selcfg) ==
    LET hit == \E l \in LayerSet :
                   r.containers[l].exists /\ ContainerModifier(l) = modifier_name
    IN [r EXCEPT !.cache_attr = SelectorCacheProperty(r.cache_attr, "C0"),
                 !.selector_cache =
                     IF hit
                     THEN [r.selector_cache EXCEPT
                              ![modifier_name] = [live |-> TRUE, config |-> selcfg]]
                     ELSE r.selector_cache]

\* lines 407-414: selector_config rebuilt from the live selectors
RefreshSelectorConfig(r) ==
    [r EXCEPT !.selector_config =
        [set |-> TRUE,
         val |-> MultiSelectorConfig(
                    [m \in Modifiers |->
                        IF r.selector_cache[m].live
                        THEN r.selector_cache[m].config ELSE None])]]

\* (mutant) the selectors are replaced, selector_config is left as it was
SetSelectorStale(r, modifier_name, selcfg) ==
    ReplaceSelector(r, modifier_name, selcfg)

SetSelectorOf(r, modifier_name, selcfg) ==
    RefreshSelectorConfig(ReplaceSelector(r, modifier_name, selcfg))

SetSelector(modifier_name, selcfg) ==
    /\ SetReg(SetSelectorOf(Reg, modifier_name, selcfg))
    /\ last' = [Done("set_selector", modifier_name, None, NoRet) EXCEPT
                    !.arg = selcfg]
    /\ UNCHANGED <<config, lockAttr, lockHeld, threadVars>>

\* ------------------------------------------------------------ one caller
\* the configs of the experts the single caller adds
SpecConfigs == {"lora_all", "skilled", "nomatch"}

\* some name other than n
OtherName(n) == CHOOSE o \in Names : o # n

\* the adds of the single caller: under the expert's own name, or under
\* expert_name with the caller's object named otherwise
AddCalls ==
    {c \in [expert : [name : Names, cfg : SpecConfigs], expert_name : Names \cup {None}] :
        \/ c.expert_name = None
        \/ c.expert.name = OtherName(c.expert_name)}

Init ==
    /\ config = NoSelectorConfig
    /\ containers = ClearContainers
    /\ experts_infos = EmptyInfos
    /\ infos_attr = FALSE
    /\ cacheAttr = None
    /\ selector_cache = EmptyCache
    /\ selector_config = [set |-> FALSE, val |-> NoSelectorConfig]
    /\ lockAttr = None
    /\ lockHeld = {}
    /\ last = NoLast
    /\ pc = [t \in Threads |-> "idle"]
    /\ th = [t \in Threads |-> NoCall]
    /\ library = NoLibrary
    /\ batch = NoBatch
    /\ ties = NoTies
    /\ weighted = NoWeighted
    /\ tvapply = NoTvApply
    /\ adapters = NoAdapters
    /\ moe_num_experts_attr = <<>>

Next ==
    \/ \E c \in AddCalls, a \in {"route", "merge"} :
          AddExpertInstance(c.expert, c.expert_name, a, FALSE)
    \/ \E n \in Names : GetExpertInstance(n)
    \/ ClearExperts
    \/ DeleteExpertContainer

Spec == Init /\ [][Next]_vars

\* ---------------------------------------------- add_expert_instance, by steps
\* A thread inside add_expert_instance(expert), action "route", no rename:
\*   lock_check   the lock property: hasattr(self, "_lock")
\*   lock_create  self._lock = threading.Lock(); return self._lock
\*   acquire      with self.lock: waiting for the Lock object it was handed
\*   inject       lines 373-383
\*   record       line 386, the experts_infos property: hasattr(...)
\*   rec_create   self._experts_infos = {}; the entry goes into it
\*   rec_get      line 388, then the with-block is left
\*   done         returned, or raised th[t].exc
LockPool == <<"L1", "L2", "L3", "L4">>
LockOf(t) == LockPool[t]

Inst(t) == [name |-> th[t].name, cfg |-> th[t].cfg]

InCritical(t) ==
    pc[t] \in {"inject", "cache_create", "inject_with", "record", "rec_create", "rec_get"}

Enter(t, name, cfg) ==
    /\ pc' = [pc EXCEPT ![t] = "lock_check"]
    /\ th' = [th EXCEPT ![t] = [NoCall EXCEPT !.op = "add_expert_instance",
                                             !.name = name, !.cfg = cfg]]

T_LockCheck(t) ==
    /\ pc[t] = "lock_check"
    /\ IF lockAttr = None
       THEN /\ pc' = [pc EXCEPT ![t] = "lock_create"]
            /\ UNCHANGED th
       ELSE /\ pc' = [pc EXCEPT ![t] = "acquire"]
            /\ th' = [th EXCEPT ![t].lk = lockAttr]
    /\ UNCHANGED <<config, registry, lockAttr, lockHeld, last, library, ties, auxVars, batch>>

T_LockCreate(t) ==
    /\ pc[t] = "lock_create"
    /\ lockAttr' = LockOf(t)
    /\ th' = [th EXCEPT ![t].lk = LockOf(t)]
    /\ pc' = [pc EXCEPT ![t] = "acquire"]
    /\ UNCHANGED <<config, registry, lockHeld, last, library, ties, auxVars, batch>>

T_Acquire(t) ==
    /\ pc[t] = "acquire"
    /\ th[t].lk \notin lockHeld
    /\ lockHeld' = lockHeld \cup {th[t].lk}
    /\ pc' = [pc EXCEPT ![t] = "inject"]
    /\ UNCHANGED <<config, registry, lockAttr, last, th, library, ties, auxVars, batch>>

T_Inject(t) ==
    /\ pc[t] = "inject"
    /\ \E a \in {CriticalInject(Reg, Inst(t), "route", FALSE)} :
       /\ SetReg(a.reg)
       /\ th' = [th EXCEPT ![t].cache = a.reg.cache_attr, ![t].exc = a.exc]
       /\ IF a.exc # None
          THEN /\ lockHeld' = WithExit(lockHeld, th[t].lk, a.exc)
               /\ pc' = [pc EXCEPT ![t] = "done"]
          ELSE /\ pc' = [pc EXCEPT ![t] = "record"]
               /\ UNCHANGED lockHeld
    /\ UNCHANGED <<config, lockAttr, last, library, ties, auxVars, batch>>

T_Record(t) ==
    /\ pc[t] = "record"
    /\ IF infos_attr
       THEN /\ SetReg(RecordStore(Reg, Inst(t)))
            /\ pc' = [pc EXCEPT ![t] = "rec_get"]
       ELSE /\ pc' = [pc EXCEPT ![t] = "rec_create"]
            /\ UNCHANGED registry
    /\ UNCHANGED <<config, lockAttr, lockHeld, last, th, library, ties, auxVars, batch>>

T_RecCreate(t) ==
    /\ pc[t] = "rec_create"
    /\ SetReg(RecordCreate(Reg, Inst(t)))
    /\ pc' = [pc EXCEPT ![t] = "rec_get"]
    /\ UNCHANGED <<config, lockAttr, lockHeld, last, th, library, ties, auxVars, batch>>

T_RecGet(t) ==
    /\ pc[t] = "rec_get"
    /\ LET gi == RecordGet(Reg, Inst(t)) IN
       /\ th' = [th EXCEPT ![t].exc = gi.exc]
       /\ lockHeld' = WithExit(lockHeld, th[t].lk, gi.exc)
    /\ pc' = [pc EXCEPT ![t] = "done"]
    /\ UNCHANGED <<config, registry, lockAttr, last, library, ties, auxVars, batch>>

Step(t) ==
    \/ T_LockCheck(t)
    \/ T_LockCreate(t)
    \/ T_Acquire(t)
    \/ T_Inject(t)
    \/ T_Record(t)
    \/ T_RecCreate(t)
    \/ T_RecGet(t)

\* ----------------------------------------------------------------- threads
\* thread t calls add_expert_instance once, with an expert of its own name
ThreadConfigs == {"lora_all"}

T_Call(t) ==
    /\ pc[t] = "idle"
    /\ \E cfg \in ThreadConfigs : Enter(t, NamePool[t], cfg)
    /\ UNCHANGED <<config, registry, lockAttr, lockHeld, last, library, ties, auxVars, batch>>

\* another caller, running the calls that take no lock
Mutator ==
    \/ SetDefaultExpert(NamePool[1])
    \/ UnsetDefaultExpert
    \/ ClearExperts
    \/ DeleteExpertContainer
    \/ \E m \in Modifiers : SetSelector(m, "s1")

NextThreads ==
    \/ \E t \in Threads : T_Call(t)
    \/ \E t \in Threads : Step(t)
    \/ Mutator

SpecThreads == Init /\ [][NextThreads]_vars

\* ------------------------------------------------- add_experts_from_library
\* The caller:  submit   executor.submit for every key of the library, in order
\*              wait     the loop over as_completed(futures)
\*              shutdown leaving the executor's with-block: shutdown(wait=True)
\*              returned / raised
\* Task t (key NamePool[t]) goes unsubmitted -> queued -> add_module -> done.
LibKeys == {NamePool[t] : t \in Threads}
LibConfigs == {"lora_all", "skilled"}

InitBatch ==
    /\ config = NoSelectorConfig
    /\ containers = ClearContainers
    /\ experts_infos = EmptyInfos
    /\ infos_attr = FALSE
    /\ cacheAttr = None
    /\ selector_cache = EmptyCache
    /\ selector_config = [set |-> FALSE, val |-> NoSelectorConfig]
    /\ lockAttr = None
    /\ lockHeld = {}
    /\ last = NoLast
    /\ pc = [t \in Threads |-> "unsubmitted"]
    /\ th = [t \in Threads |-> NoCall]
    /\ library \in [LibKeys -> LibConfigs]
    /\ batch = [NoBatch EXCEPT !.pc = "submit"]
    /\ ties = NoTies
    /\ weighted = NoWeighted
    /\ tvapply = NoTvApply
    /\ adapters = NoAdapters
    /\ moe_num_experts_attr = <<>>

Running == {t \in Threads : pc[t] \notin {"unsubmitted", "queued", "done"}}

B_Submit ==
    /\ batch.pc = "submit"
    /\ \E t \in Threads :
          /\ pc[t] = "unsubmitted"
          /\ \A u \in Threads : u < t => pc[u] # "unsubmitted"
          /\ pc' = [pc EXCEPT ![t] = "queued"]
          /\ batch' = [batch EXCEPT !.pc =
                          IF \A u \in Threads : u > t => pc[u] # "unsubmitted"
                          THEN "wait" ELSE "submit"]
    /\ UNCHANGED <<config, registry, lockAttr, lockHeld, last, th, library, ties, auxVars>>

\* add_module: expert_dump = library[module_name]; self.add_expert_instance(expert_dump)
W_Start(t) ==
    /\ pc[t] = "queued"
    /\ Cardinality(Running) < max_workers
    /\ Enter(t, NamePool[t], library[NamePool[t]])
    /\ UNCHANGED <<config, registry, lockAttr, lockHeld, last, library, ties, auxVars, batch>>

\* (mutant) a future's exception is not looked at
AsCompletedIgnore(b, t, exc) ==
    [b EXCEPT !.yielded = b.yielded \cup {t},
              !.pc = IF b.yielded \cup {t} = Threads THEN "shutdown" ELSE "wait"]

\* lines 275-279: one future out of as_completed
AsCompleted(b, t, exc) ==
    IF exc # None
    THEN [b EXCEPT !.exc = exc, !.pc = "shutdown"]
    ELSE [b EXCEPT !.yielded = b.yielded \cup {t},
                   !.pc = IF b.yielded \cup {t} = Threads THEN "shutdown" ELSE "wait"]

B_Yield ==
    /\ batch.pc = "wait"
    /\ \E t \in Threads \ batch.yielded :
          /\ pc[t] = "done"
          /\ batch' = AsCompleted(batch, t, th[t].exc)
    /\ UNCHANGED <<config, registry, lockAttr, lockHeld, last, pc, th, library, ties, auxVars>>

B_Shutdown ==
    /\ batch.pc = "shutdown"
    /\ \A t \in Threads : pc[t] = "done"
    /\ batch' = [batch EXCEPT !.pc = IF batch.exc = None THEN "returned" ELSE "raised"]
    /\ UNCHANGED <<config, registry, lockAttr, lockHeld, last, pc, th, library, ties, auxVars>>

NextBatch ==
    \/ B_Submit
    \/ \E t \in Threads : W_Start(t)
    \/ \E t \in Threads : Step(t)
    \/ B_Yield
    \/ B_Shutdown

\* the interpreter keeps running: while some thread can take a step, a step
\* is taken (nothing is assumed about which thread is scheduled)
FairBatch == WF_vars(NextBatch)

SpecBatch == InitBatch /\ [][NextBatch]_vars /\ FairBatch

\* ------------------------------------------------- the default expert calls
\* One caller adding experts (with or without is_default), setting and
\* unsetting the default expert and clearing. The skilled experts differ in
\* the injection points they match, so that the containers of one modifier
\* type can hold different experts.
DefaultConfigs == {"lora_all", "skilled_l4", "skilled_all"}

NextDefault ==
    \/ \E n \in Names, cfg \in DefaultConfigs, a \in {"route", "merge"}, d \in BOOLEAN :
          AddExpertInstance([name |-> n, cfg |-> cfg], None, a, d)
    \/ \E n \in Names : SetDefaultExpert(n)
    \/ UnsetDefaultExpert
    \/ ClearExperts

SpecDefault == Init /\ [][NextDefault]_vars

\* ------------------------------------------------ the selector_cache property
\* add_expert_instance and set_selector by steps, the read of the
\* selector_cache property (lines 167-171) taken apart:
\*   inject / sel_cache_check     hasattr(self, "_selector_cache")
\*   cache_create / sel_cache_create
\*                                self._selector_cache = SelectorsCache()
\*   inject_with                  lines 373-383 with the cache object read
\*   sel_apply                    lines 397-414 with the cache object read
CachePool == <<"C1", "C2", "C3", "C4">>
CacheOf(t) == CachePool[t]

\* what a call writes into the cache object it was handed reaches
\* self.selector_cache only when that object is the one the attribute holds
Through(t, r) ==
    IF th[t].cache = cacheAttr THEN r ELSE [r EXCEPT !.selector_cache = selector_cache]

T_CacheCheck(t) ==
    /\ pc[t] \in {"inject", "sel_cache_check"}
    /\ IF cacheAttr = None
       THEN /\ pc' = [pc EXCEPT ![t] = IF pc[t] = "inject" THEN "cache_create"
                                                          ELSE "sel_cache_create"]
            /\ UNCHANGED th
       ELSE /\ pc' = [pc EXCEPT ![t] = IF pc[t] = "inject" THEN "inject_with"
                                                          ELSE "sel_apply"]
            /\ th' = [th EXCEPT ![t].cache = cacheAttr]
    /\ UNCHANGED <<config, registry, lockAttr, lockHeld, last, library, ties, auxVars, batch>>

T_CacheCreate(t) ==
    /\ pc[t] \in {"cache_create", "sel_cache_create"}
    /\ cacheAttr' = CacheOf(t)
    /\ th' = [th EXCEPT ![t].cache = CacheOf(t)]
    /\ pc' = [pc EXCEPT ![t] = IF pc[t] = "cache_create" THEN "inject_with"
                                                         ELSE "sel_apply"]
    /\ UNCHANGED <<config, containers, experts_infos, infos_attr, selector_cache,
                   selector_config, lockAttr, lockHeld, last, library, ties, auxVars, batch>>

T_InjectWith(t) ==
    /\ pc[t] = "inject_with"
    /\ LET a == CriticalInject(Reg, Inst(t), "route", FALSE) IN
       /\ SetReg(Through(t, a.reg))
       /\ th' = [th EXCEPT ![t].exc = a.exc]
       /\ IF a.exc # None
          THEN /\ lockHeld' = WithExit(lockHeld, th[t].lk, a.exc)
               /\ pc' = [pc EXCEPT ![t] = "done"]
          ELSE /\ pc' = [pc EXCEPT ![t] = "record"]
               /\ UNCHANGED lockHeld
    /\ UNCHANGED <<config, lockAttr, last, library, ties, auxVars, batch>>

\* thread t calls set_selector(modifier_name, selector_config)
T_SelCall(t) ==
    /\ pc[t] = "idle"
    /\ pc' = [pc EXCEPT ![t] = "sel_cache_check"]
    /\ th' = [th EXCEPT ![t] = [NoCall EXCEPT !.op = "set_selector",
                                             !.name = "lora", !.cfg = "s2"]]
    /\ UNCHANGED <<config, registry, lockAttr, lockHeld, last, library, ties, auxVars, batch>>

T_SelApply(t) ==
    /\ pc[t] = "sel_apply"
    /\ SetReg(RefreshSelectorConfig(
                 Through(t, ReplaceSelector(Reg, th[t].name, th[t].cfg))))
    /\ pc' = [pc EXCEPT ![t] = "done"]
    /\ UNCHANGED <<config, lockAttr, lockHeld, last, th, library, ties, auxVars, batch>>

StepCache(t) ==
    \/ T_LockCheck(t)
    \/ T_LockCreate(t)
    \/ T_Acquire(t)
    \/ T_CacheCheck(t)
    \/ T_CacheCreate(t)
    \/ T_InjectWith(t)
    \/ T_Record(t)
    \/ T_RecCreate(t)
    \/ T_RecGet(t)
    \/ T_SelApply(t)

NextCache ==
    \/ \E t \in Threads : T_Call(t)
    \/ \E t \in Threads : T_SelCall(t)
    \/ \E t \in Threads : StepCache(t)

SpecCache == Init /\ [][NextCache]_vars

\* ------------------------------------------------------ the selector calls
\* A model constructed with some selector_config; one caller adding experts
\* for routing, replacing selectors and clearing.
InitSelector ==
    /\ config \in InitSelectorConfigs
    /\ containers = ClearContainers
    /\ experts_infos = EmptyInfos
    /\ infos_attr = FALSE
    /\ cacheAttr = None
    /\ selector_cache = EmptyCache
    /\ selector_config = [set |-> FALSE, val |-> NoSelectorConfig]
    /\ lockAttr = None
    /\ lockHeld = {}
    /\ last = NoLast
    /\ pc = [t \in Threads |-> "idle"]
    /\ th = [t \in Threads |-> NoCall]
    /\ library = NoLibrary
    /\ batch = NoBatch
    /\ ties = NoTies
    /\ weighted = NoWeighted
    /\ tvapply = NoTvApply
    /\ adapters = NoAdapters
    /\ moe_num_experts_attr = <<>>

SelectorSpecConfigs == {"lora_all", "skilled"}

NextSelector ==
    \/ \E n \in Names, cfg \in SelectorSpecConfigs, d \in BOOLEAN :
          AddExpertInstance([name |-> n, cfg |-> cfg], None, "route", d)
    \/ \E m \in Modifiers : SetSelector(m, "s2")
    \/ ClearExperts

SpecSelector == InitSelector /\ [][NextSelector]_vars

\* ------------------------------------------------------------- TIES merging
\* test_ties_merge's step-by-step computation: topk_values_mask, resolve_sign,
\* disjoint_merge. A flat task vector is a sequence of integers; top_k is held
\* in hundredths (20 is 0.2, 100 is 1.0, 4000 is 40, a percentage); a merged
\* entry is a fraction [num, den].
Abs(x) == IF x < 0 THEN 0 - x ELSE x
Sign(x) == IF x > 0 THEN 1 ELSE IF x < 0 THEN 0 - 1 ELSE 0

RECURSIVE SumTo(_, _)
SumTo(f, n) == IF n = 0 THEN 0 ELSE f[n] + SumTo(f, n - 1)

\* M.abs()
AbsRow(row) == [i \in 1..Len(row) |-> Abs(row[i])]

\* kthvalue(k): the k-th smallest element of a row
KthValue(row, k) ==
    CHOOSE v \in {row[i] : i \in 1..Len(row)} :
        /\ Cardinality({i \in 1..Len(row) : row[i] < v}) < k
        /\ k <= Cardinality({i \in 1..Len(row) : row[i] <= v})

\* if K > 1: K /= 100
NormK(top_k) == IF top_k > 100 THEN top_k \div 100 ELSE top_k

\* k = int(d * K); k = d - k
TrimK(d, top_k) == d - ((d * NormK(top_k)) \div 100)

\* mask_ = M.abs() >= kth_values
RankMask(row, top_k) ==
    LET a == AbsRow(row)
        kth == KthValue(a, TrimK(Len(row), top_k))
    IN [i \in 1..Len(row) |-> a[i] >= kth]

\* TH = M.abs().quantile(1 - K), with linear interpolation between the two
\* nearest ranks; the value is returned times 100
Quantile100(a, top_k) ==
    LET pos == (100 - NormK(top_k)) * (Len(a) - 1)
        lo == pos \div 100
        fr == pos % 100
        hi == IF fr = 0 THEN lo ELSE lo + 1
        slo == KthValue(a, lo + 1)
        shi == KthValue(a, hi + 1)
    IN 100 * slo + fr * (shi - slo)

\* mask = M.abs() >= TH
QuantileMask(row, top_k) ==
    LET a == AbsRow(row)
        th100 == Quantile100(a, top_k)
    IN [i \in 1..Len(row) |-> 100 * a[i] >= th100]

\* final_mask: the mask the rows are multiplied with
FinalMask(row, top_k) == QuantileMask(row, top_k)

\* topk_values_mask(M, K): kthvalue raises when k is not in 1..d
TopkValuesMask(M, top_k) ==
    LET d == Len(M[1])
        k == TrimK(d, top_k)
    IN IF k < 1 \/ k > d
       THEN [exc |-> "RuntimeError", M |-> <<>>]
       ELSE [exc |-> None,
             M |-> [r \in 1..Len(M) |->
                      [i \in 1..d |->
                          IF FinalMask(M[r], top_k)[i] THEN M[r][i] ELSE 0]]]

ColSum(T, i) == SumTo([r \in 1..Len(T) |-> T[r][i]], Len(T))

\* (mutant) resolve_zero_signs(..., "minority")
ResolveSignMinority(T) ==
    LET d == Len(T[1])
        sign_to_mult == [i \in 1..d |-> Sign(ColSum(T, i))]
        majority_sign == Sign(SumTo(sign_to_mult, d))
    IN [i \in 1..d |-> IF sign_to_mult[i] = 0 THEN (0 - 1) * majority_sign
                                              ELSE sign_to_mult[i]]

\* resolve_sign, with resolve_zero_signs(..., "majority")
ResolveSign(T) ==
    LET d == Len(T[1])
        sign_to_mult == [i \in 1..d |-> Sign(ColSum(T, i))]
        majority_sign == Sign(SumTo(sign_to_mult, d))
    IN [i \in 1..d |-> IF sign_to_mult[i] = 0 THEN majority_sign ELSE sign_to_mult[i]]

MaxOf(S) == CHOOSE x \in S : \A y \in S : y <= x

\* disjoint_merge(Tensor, merge_func, sign_to_mult)
DisjointMerge(T, merge_func, sign_to_mult) ==
    LET d == Len(T[1])
        selected_entries ==
            [r \in 1..Len(T) |->
                [i \in 1..d |->
                    IF (IF sign_to_mult[i] > 0 THEN T[r][i] > 0 ELSE T[r][i] < 0)
                    THEN T[r][i] ELSE 0]]
        non_zero_counts(i) ==
            Cardinality({r \in 1..Len(T) : selected_entries[r][i] # 0})
    IN [i \in 1..d |->
          IF merge_func = "mean"
          THEN [num |-> ColSum(selected_entries, i),
                den |-> MaxOf({non_zero_counts(i), 1})]
          ELSE IF merge_func = "sum"
          THEN [num |-> ColSum(selected_entries, i), den |-> 1]
          ELSE [num |-> MaxOf({Abs(selected_entries[r][i]) : r \in 1..Len(T)})
                           * sign_to_mult[i],
                den |-> 1]]

\* the end-to-end scenario: two experts with disjoint 10-element vectors
ScenarioA == <<5, 0 - 5, 0, 0, 0, 0, 0, 0, 0, 0>>
ScenarioB == <<0, 0, 3, 0 - 3, 0, 0, 0, 0, 0, 0>>

\* the inputs of a merge: two flat task vectors of TiesLen entries, or the
\* scenario; top_k as a fraction, and for the scenario also as a percentage
TiesValues == {0 - 1, 0, 1, 3}
TiesTopK == {40, 100}
PercentTopK == {4000}
MergeFuncs == {"mean", "sum", "max"}
TiesRows == [1..TiesLen -> TiesValues]
TiesChecks == {<<ScenarioA, ScenarioB>>} \cup {<<a, b>> : a \in TiesRows, b \in TiesRows}

InitTies ==
    /\ config = NoSelectorConfig
    /\ containers = ClearContainers
    /\ experts_infos = EmptyInfos
    /\ infos_attr = FALSE
    /\ cacheAttr = None
    /\ selector_cache = EmptyCache
    /\ selector_config = [set |-> FALSE, val |-> NoSelectorConfig]
    /\ lockAttr = None
    /\ lockHeld = {}
    /\ last = NoLast
    /\ pc = [t \in Threads |-> "idle"]
    /\ th = [t \in Threads |-> NoCall]
    /\ library = NoLibrary
    /\ batch = NoBatch
    /\ \E M \in TiesChecks, k \in TiesTopK \cup PercentTopK :
          /\ k \in PercentTopK => M = <<ScenarioA, ScenarioB>>
          /\ ties = [NoTies EXCEPT !.pc = "input", !.tv_flat_checks = M, !.top_k = k]
    /\ weighted = NoWeighted
    /\ tvapply = NoTvApply
    /\ adapters = NoAdapters
    /\ moe_num_experts_attr = <<>>

\* ties_merging, line by line
TiesTrim ==
    /\ ties.pc = "input"
    /\ LET r == TopkValuesMask(ties.tv_flat_checks, ties.top_k) IN
       ties' = [ties EXCEPT !.pc = IF r.exc # None THEN "raised" ELSE "trimmed",
                            !.updated_checks = r.M]
    /\ UNCHANGED <<config, registry, lockAttr, lockHeld, last, pc, th, library, batch, auxVars>>

TiesResolveSign ==
    /\ ties.pc = "trimmed"
    /\ ties' = [ties EXCEPT !.pc = "signed",
                            !.final_signs = ResolveSign(ties.updated_checks)]
    /\ UNCHANGED <<config, registry, lockAttr, lockHeld, last, pc, th, library, batch, auxVars>>

TiesDisjointMerge(merge_func) ==
    /\ ties.pc = "signed"
    /\ ties' = [ties EXCEPT !.pc = "merged",
                            !.merge_func = merge_func,
                            !.merged_tv = DisjointMerge(ties.updated_checks,
                                              merge_func, ties.final_signs)]
    /\ UNCHANGED <<config, registry, lockAttr, lockHeld, last, pc, th, library, batch, auxVars>>

NextTies ==
    \/ TiesTrim
    \/ TiesResolveSign
    \/ \E f \in MergeFuncs : TiesDisjointMerge(f)

SpecTies == InitTies /\ [][NextTies]_vars

\* ------------------------------------------------------ weighted linear merge
\* test_weighted_merge: the library's experts are merged once with no weights
\* and once with per-expert weights, and both results are compared with the
\* test's own stack-and-reduce computation. An expert is its weights, key ->
\* integer; a weight is held in tenths; a result is a fraction [num, den].
WKeys == {"k1", "k2"}
WValues == {0 - 1, 2}
WWeights == {2, 5, 10}
WDen == 10
\* WeightedLinearMergeConfig(weights=None)
NoWeights == <<>>

\* the engine: the output for key k is the sum of weight_i * M_i[k], the
\* weights being 1/N each when none are supplied
WeightedLinearMerge(experts, weights) ==
    LET N == Len(experts) IN
    [k \in DOMAIN experts[1] |->
        IF weights = NoWeights
        THEN [num |-> SumTo([i \in 1..N |-> experts[i][k]], N), den |-> N]
        ELSE [num |-> SumTo([i \in 1..N |-> weights[i] * experts[i][k]], N),
              den |-> WDen]]

\* (mutant) the reference with the weights renormalised to sum to 1
WeightedParamNormalized(experts, weights, key) ==
    [num |-> SumTo([i \in 1..Len(experts) |-> experts[i][key] * weights[i]],
                   Len(experts)),
     den |-> SumTo(weights, Len(weights))]

\* weighted_param = stack([exp.expert_weights[key] * weights[exp_name]]).sum(0)
WeightedParam(experts, weights, key) ==
    [num |-> SumTo([i \in 1..Len(experts) |-> experts[i][key] * weights[i]],
                   Len(experts)),
     den |-> WDen]

\* avg_param = stack([exp.expert_weights[key]]).mean(0)
AvgParam(experts, key) ==
    [num |-> SumTo([i \in 1..Len(experts) |-> experts[i][key]], Len(experts)),
     den |-> Len(experts)]

\* torch.allclose on exact fractions
AllClose(a, b) == a.num * b.den = b.num * a.den

InitWeighted ==
    /\ config = NoSelectorConfig
    /\ containers = ClearContainers
    /\ experts_infos = EmptyInfos
    /\ infos_attr = FALSE
    /\ cacheAttr = None
    /\ selector_cache = EmptyCache
    /\ selector_config = [set |-> FALSE, val |-> NoSelectorConfig]
    /\ lockAttr = None
    /\ lockHeld = {}
    /\ last = NoLast
    /\ pc = [t \in Threads |-> "idle"]
    /\ th = [t \in Threads |-> NoCall]
    /\ library = NoLibrary
    /\ batch = NoBatch
    /\ ties = NoTies
    /\ tvapply = NoTvApply
    /\ adapters = NoAdapters
    /\ moe_num_experts_attr = <<>>
    /\ \E e \in [(1..NumNames) -> [WKeys -> WValues]], w \in [(1..NumNames) -> WWeights] :
          weighted = [NoWeighted EXCEPT !.pc = "library", !.experts = e, !.weights = w]

\* transform = WeightedLinearMerge(); exp = transform.transform(library)
WeightedUniform ==
    /\ weighted.pc = "library"
    /\ weighted' = [weighted EXCEPT !.pc = "uniform",
                       !.uniform = WeightedLinearMerge(weighted.experts, NoWeights)]
    /\ UNCHANGED <<config, registry, lockAttr, lockHeld, last, pc, th, library, batch,
                   ties, tvapply, adapters, moe_num_experts_attr>>

\* transform = WeightedLinearMerge(cfg); weighted_exp = transform.transform(library)
WeightedExplicit ==
    /\ weighted.pc = "uniform"
    /\ weighted' = [weighted EXCEPT !.pc = "weighted",
                       !.weighted = WeightedLinearMerge(weighted.experts,
                                                        weighted.weights)]
    /\ UNCHANGED <<config, registry, lockAttr, lockHeld, last, pc, th, library, batch,
                   ties, tvapply, adapters, moe_num_experts_attr>>

NextWeighted == WeightedUniform \/ WeightedExplicit

SpecWeighted == InitWeighted /\ [][NextWeighted]_vars

\* ---------------------------------------------------------- task_vector_apply
\* The model's named parameters and the task_merged_vectors dictionary. A
\* tensor is [shape |-> <<rows, cols>>, data |-> row -> col -> integer].
Shapes == (1..MaxDim) \X (1..MaxDim)
\* a parameter before the call
ZeroTensor(shape) ==
    [shape |-> shape, data |-> [i \in 1..shape[1] |-> [j \in 1..shape[2] |-> 0]]]
\* a delta whose entries all differ
DeltaTensor(shape) ==
    [shape |-> shape,
     data |-> [i \in 1..shape[1] |-> [j \in 1..shape[2] |-> 10 * i + j]]]
NoTensor == [shape |-> <<0, 0>>, data |-> <<>>]

\* tensor.T
Transpose(t) ==
    [shape |-> <<t.shape[2], t.shape[1]>>,
     data |-> [i \in 1..t.shape[2] |-> [j \in 1..t.shape[1] |-> t.data[j][i]]]]

\* res = param + delta; param.data.copy_(res): both broadcast, and raise a
\* RuntimeError when a dimension of the delta is neither 1 nor the parameter's
Broadcasts(pshape, dshape) ==
    \A a \in 1..2 : dshape[a] = pshape[a] \/ dshape[a] = 1

AddCopy(param, delta) ==
    [param EXCEPT !.data =
        [i \in 1..param.shape[1] |-> [j \in 1..param.shape[2] |->
            param.data[i][j]
            + delta.data[IF delta.shape[1] = 1 THEN 1 ELSE i]
                        [IF delta.shape[2] = 1 THEN 1 ELSE j]]]]

\* model.named_parameters(), in order
ParamNames == <<"l1.weight", "l1.bias", "l2.weight">>
TaskKeys == {"l1", "l2"}

\* name.split(".weight")[0]
SplitWeight(name) ==
    IF name = "l1.weight" THEN "l1" ELSE IF name = "l2.weight" THEN "l2" ELSE name

\* the loop of task_vector_apply from parameter i on
RECURSIVE TaskVectorApplyFrom(_, _)
TaskVectorApplyFrom(i, st) ==
    IF i > Len(ParamNames) THEN [st EXCEPT !.pc = "returned"]
    ELSE
      LET name == SplitWeight(ParamNames[i])
          param == st.params[i]
      IN IF name \notin TaskKeys \/ st.task_merged_vectors[name] = NoTensor
         THEN TaskVectorApplyFrom(i + 1, st)
         ELSE
           LET vec == IF param.shape # st.task_merged_vectors[name].shape
                      THEN Transpose(st.task_merged_vectors[name])
                      ELSE st.task_merged_vectors[name]
               st1 == [st EXCEPT !.task_merged_vectors[name] = vec]
           IN IF ~Broadcasts(param.shape, vec.shape)
              THEN [st1 EXCEPT !.pc = "raised", !.exc = "RuntimeError"]
              ELSE TaskVectorApplyFrom(i + 1,
                       [st1 EXCEPT !.params[i] = AddCopy(param, vec)])

InitTaskVector ==
    /\ config = NoSelectorConfig
    /\ containers = ClearContainers
    /\ experts_infos = EmptyInfos
    /\ infos_attr = FALSE
    /\ cacheAttr = None
    /\ selector_cache = EmptyCache
    /\ selector_config = [set |-> FALSE, val |-> NoSelectorConfig]
    /\ lockAttr = None
    /\ lockHeld = {}
    /\ last = NoLast
    /\ pc = [t \in Threads |-> "idle"]
    /\ th = [t \in Threads |-> NoCall]
    /\ library = NoLibrary
    /\ batch = NoBatch
    /\ ties = NoTies
    /\ weighted = NoWeighted
    /\ adapters = NoAdapters
    /\ moe_num_experts_attr = <<>>
    /\ \E s1 \in Shapes, s2 \in Shapes,
          v \in [TaskKeys -> {NoTensor} \cup {DeltaTensor(sh) : sh \in Shapes}] :
          tvapply = [NoTvApply EXCEPT
                        !.pc = "call",
                        !.params = <<ZeroTensor(s1), ZeroTensor(<<1, 1>>),
                                     ZeroTensor(s2)>>,
                        !.task_merged_vectors = v,
                        !.given = v]

TaskVectorApply ==
    /\ tvapply.pc = "call"
    /\ tvapply' = TaskVectorApplyFrom(1, tvapply)
    /\ UNCHANGED <<config, registry, lockAttr, lockHeld, last, pc, th, library, batch,
                   ties, weighted, adapters, moe_num_experts_attr>>

SpecTaskVector == InitTaskVector /\ [][TaskVectorApply]_vars

\* ------------------------------------------------------ MoEModel's bulk add
\* add_empty_experts: add_empty_expert("e<i>", modifier_config) for i in
\* range(moe_num_experts), each one an add_expert_instance under the lock.
MoEConfigs == {"lora_all", "skilled", "skilled_all", "nomatch"}
MoENumExperts == 1..(NumNames + 1)

\* (mutant) no except clause: a ContainerFullException leaves the loop as
\* any other exception does
ExceptNothing(exc) == FALSE

\* except ContainerFullException
ExceptContainerFull(exc) == exc = "ContainerFull"

RECURSIVE AddEmptyExpertsFrom(_, _, _, _)
AddEmptyExpertsFrom(i, st, moe_num_experts, modifier_config) ==
    IF i >= moe_num_experts THEN st
    ELSE
      LET new_expert == [name |-> NamePool[i + 1], cfg |-> modifier_config]
          rn == RenamedInstance(new_expert, None)
          lk == LockProperty(st.lockAttr, "L0")
          cs == CriticalSection(st.reg, rn.inst, "route", FALSE)
          st1 == [st EXCEPT !.reg = cs.reg,
                            !.lockAttr = lk,
                            !.lockHeld = WithExit(st.lockHeld \cup {lk}, lk, cs.exc),
                            !.attempted = Append(st.attempted, new_expert.name)]
      IN IF cs.exc = None
         THEN AddEmptyExpertsFrom(i + 1, st1, moe_num_experts, modifier_config)
         ELSE IF ExceptContainerFull(cs.exc)
         THEN [st1 EXCEPT !.full_at = <<i>>]
         ELSE [st1 EXCEPT !.exc = cs.exc]

AddEmptyExperts(moe_num_experts, modifier_config) ==
    \E r \in {AddEmptyExpertsFrom(0, [reg |-> Reg, lockAttr |-> lockAttr,
                                       lockHeld |-> lockHeld, attempted |-> <<>>,
                                       full_at |-> <<>>, exc |-> None],
                                   moe_num_experts, modifier_config)} :
       /\ LockProperty(lockAttr, "L0") \notin lockHeld
       /\ SetReg(r.reg)
       /\ lockAttr' = r.lockAttr
       /\ lockHeld' = r.lockHeld
       /\ last' = [Done("add_empty_experts", None, r.exc, NoRet) EXCEPT
                      !.arg = moe_num_experts,
                      !.attempted = r.attempted,
                      !.full_at = r.full_at]
       /\ UNCHANGED <<config, threadVars>>

MoEAddConfigs == {"lora_all", "skilled_l4"}

NextMoE ==
    \/ \E n \in MoENumExperts, cfg \in MoEConfigs : AddEmptyExperts(n, cfg)
    \/ \E n \in Names, cfg \in MoEAddConfigs :
          AddExpertInstance([name |-> n, cfg |-> cfg], None, "route", FALSE)
    \/ ClearExperts

SpecMoE == Init /\ [][NextMoE]_vars

\* ------------------------------------------------------------- construction
\* MultiExpertModelConfig.__post_init__, MultiExpertModel.__init__ and
\* from_pretrained_library. expert_infos is None or a list of (name, config)
\* with distinct names; a library maps every name to a config.
ConstructConfigs == {"lora_all", "skilled", "skilled_l4"}
NoExpertInfos == <<[name |-> None, cfg |-> None]>>

ExpertInfoLists ==
    {NoExpertInfos} \cup
    {l \in UNION {[1..n -> [name : Names, cfg : ConstructConfigs]] : n \in 0..NumNames} :
        \A i, j \in 1..Len(l) : i # j => l[i].name # l[j].name}

\* __post_init__: default_expert_name needs expert_infos
PostInit(expert_infos, default_expert_name) ==
    IF expert_infos = NoExpertInfos /\ default_expert_name # None
    THEN "ValueError" ELSE None

\* one add_expert_instance(expert, action="route") after the other
RECURSIVE AddAllFrom(_, _, _)
AddAllFrom(i, st, infos) ==
    IF i > Len(infos) \/ st.exc # None THEN st
    ELSE LET cs == CriticalSection(st.reg, infos[i], "route", FALSE) IN
         AddAllFrom(i + 1, [reg |-> cs.reg, exc |-> cs.exc], infos)

\* __init__: the experts of config.expert_infos, then the default expert
InitModel(r, expert_infos, default_expert_name) ==
    IF expert_infos = NoExpertInfos THEN [reg |-> r, exc |-> None]
    ELSE LET a == AddAllFrom(1, [reg |-> r, exc |-> None], expert_infos) IN
         IF a.exc # None \/ default_expert_name = None THEN a
         ELSE LET d == SetDefaultExpertOf(a.reg.containers, a.reg.experts_infos,
                                          default_expert_name)
              IN [reg |-> [a.reg EXCEPT !.containers = d.containers,
                                        !.infos_attr = TRUE],
                  exc |-> d.exc]

\* MultiExpertModel(config)
Construct(expert_infos, default_expert_name) ==
    /\ last.op = "init"
    /\ \E r \in {IF PostInit(expert_infos, default_expert_name) # None
                 THEN [reg |-> Reg, exc |-> PostInit(expert_infos, default_expert_name)]
                 ELSE InitModel(Reg, expert_infos, default_expert_name)} :
          /\ SetReg(r.reg)
          /\ lockAttr' = IF r.reg.experts_infos # Reg.experts_infos
                            \/ r.reg.containers # Reg.containers
                         THEN LockProperty(lockAttr, "L0") ELSE lockAttr
          /\ last' = [Done("__init__", default_expert_name, r.exc, NoRet) EXCEPT
                         !.cleared = IF expert_infos = NoExpertInfos THEN {}
                                     ELSE {expert_infos[i].name : i \in 1..Len(expert_infos)}]
    /\ UNCHANGED <<config, lockHeld, threadVars>>

\* the library's experts in key order
LibraryList(lib) ==
    [i \in 1..NumNames |-> [name |-> NamePool[i], cfg |-> lib[NamePool[i]]]]

\* from_pretrained_library(library, default_expert_name=...): the config has
\* no expert_infos; the model is built, then the library is added
FromPretrainedLibrary(lib, default_expert_name) ==
    /\ last.op = "init"
    /\ \E r \in {IF PostInit(NoExpertInfos, default_expert_name) # None
                 THEN [reg |-> Reg, exc |-> PostInit(NoExpertInfos, default_expert_name)]
                 ELSE AddAllFrom(1, InitModel(Reg, NoExpertInfos, default_expert_name),
                                 LibraryList(lib))} :
          /\ SetReg(r.reg)
          /\ lockAttr' = IF r.reg.experts_infos # Reg.experts_infos
                            \/ r.reg.containers # Reg.containers
                         THEN LockProperty(lockAttr, "L0") ELSE lockAttr
          /\ last' = [Done("from_pretrained_library", default_expert_name, r.exc, NoRet)
                         EXCEPT !.cleared = DOMAIN lib, !.arg = lib]
    /\ UNCHANGED <<config, lockHeld, threadVars>>

NextConstruct ==
    \/ \E l \in ExpertInfoLists, n \in Names \cup {None} : Construct(l, n)
    \/ \E lib \in [Names -> ConstructConfigs], n \in Names \cup {None} :
          FromPretrainedLibrary(lib, n)
    \/ (last.op # "init" /\ last.exc = None) /\ \E n \in Names : SetDefaultExpert(n)
    \/ (last.op # "init" /\ last.exc = None) /\ UnsetDefaultExpert
    \/ (last.op # "init" /\ last.exc = None) /\ ClearExperts

SpecConstruct == Init /\ [][NextConstruct]_vars

\* ---------------------------------------------------- MoEModel.__init__
\* config.library_id is None or the id of a library; get_expert_library
\* returns the library of that id, which may hold no expert.
MoELibraries == {NoLibrary} \cup [Names -> MoEAddConfigs]

\* the body of __init__ after super().__init__: either add_empty_experts and
\* the count of the config, or the library's experts in sorted key order and
\* the loop index plus one
MoEModelInitOf(r, library_id, expert_library, num, modifier_config) ==
    LET st0 == [reg |-> r, lockAttr |-> lockAttr, lockHeld |-> lockHeld,
                attempted |-> <<>>, full_at |-> <<>>, exc |-> None]
    IN IF library_id = None /\ num >= 1
       THEN LET a == AddEmptyExpertsFrom(0, st0, num, modifier_config) IN
            [st |-> a, moe_num_experts |-> IF a.exc = None THEN <<num>> ELSE <<>>]
       ELSE IF DOMAIN expert_library = {}
       THEN [st |-> [st0 EXCEPT !.exc = "AssertionError"], moe_num_experts |-> <<>>]
       ELSE LET keys == LibraryList(expert_library)
                insts == [i \in 1..Len(keys) |->
                             RenamedInstance(keys[i], keys[i].name).inst]
                a == AddAllFrom(1, [reg |-> r, exc |-> None], insts)
            IN [st |-> [st0 EXCEPT !.reg = a.reg, !.exc = a.exc,
                                   !.lockAttr = LockProperty(lockAttr, "L0")],
                moe_num_experts |-> IF a.exc = None THEN <<(Len(keys) - 1) + 1>>
                                    ELSE <<>>]

MoEModelInit(library_id, expert_library, num, modifier_config) ==
    /\ last.op = "init"
    /\ \E r \in {MoEModelInitOf(Reg, library_id, expert_library, num,
                                modifier_config)} :
          /\ SetReg(r.st.reg)
          /\ lockAttr' = r.st.lockAttr
          /\ lockHeld' = r.st.lockHeld
          /\ moe_num_experts_attr' = r.moe_num_experts
          /\ last' = [Done("MoEModel.__init__", library_id, r.st.exc, NoRet) EXCEPT
                         !.arg = num,
                         !.cleared = DOMAIN expert_library,
                         !.attempted = r.st.attempted,
                         !.full_at = r.st.full_at]
    /\ UNCHANGED <<config, pc, th, library, batch, ties, weighted, tvapply, adapters>>

NextMoEInit ==
    \/ \E n \in MoENumExperts, cfg \in MoEConfigs : MoEModelInit(None, NoLibrary, n, cfg)
    \/ \E lib \in MoELibraries, n \in MoENumExperts :
          MoEModelInit("lib", lib, n, None)
    \/ (last.op # "init" /\ last.exc = None) /\ \E n \in Names : GetExpertInstance(n)
    \/ (last.op # "init" /\ last.exc = None) /\ \E n \in Names : SetDefaultExpert(n)
    \/ (last.op # "init" /\ last.exc = None) /\ ClearExperts

SpecMoEInit == Init /\ [][NextMoEInit]_vars

\* ------------------------------------------------------- disable_adapters
\* with disable_adapters(model): <body>. The generator runs up to its yield
\* on entry; on exit it is resumed after the yield when the body returned,
\* and the body's exception is thrown into it at the yield when the body
\* raised.
HostingLayers(conts) ==
    {Layers[i] : i \in {j \in 1..Len(Layers) : conts[Layers[j]].exists}}

\* disable_adapters(): module.disable() on every container
DisableAdapters(disabled, conts) == disabled \cup HostingLayers(conts)

\* enable_adapters(): module.enable() on every container
EnableAdapters(disabled, conts) == disabled \ HostingLayers(conts)

\* __enter__: model.disable_adapters(); yield
WithEnter ==
    /\ adapters.pc = "idle"
    /\ adapters' = [pc |-> "body", exc |-> None,
                    disabled |-> DisableAdapters(adapters.disabled, containers)]
    /\ UNCHANGED <<config, registry, lockAttr, lockHeld, last, pc, th, library, batch,
                   ties, weighted, tvapply, moe_num_experts_attr>>

\* __exit__ after a body that returned: the generator runs on after the yield
WithExitReturned ==
    /\ adapters.pc = "body"
    /\ adapters' = [pc |-> "idle", exc |-> None,
                    disabled |-> EnableAdapters(adapters.disabled, containers)]
    /\ last' = Done("disable_adapters", None, None, NoRet)
    /\ UNCHANGED <<config, registry, lockAttr, lockHeld, pc, th, library, batch,
                   ties, weighted, tvapply, moe_num_experts_attr>>

\* __exit__ after a body that raised: the exception is raised at the yield,
\* which no try statement encloses, and leaves the generator
WithExitRaised ==
    /\ adapters.pc = "body"
    /\ adapters' = [adapters EXCEPT !.pc = "idle", !.exc = "Exception"]
    /\ last' = Done("disable_adapters", None, "Exception", NoRet)
    /\ UNCHANGED <<config, registry, lockAttr, lockHeld, pc, th, library, batch,
                   ties, weighted, tvapply, moe_num_experts_attr>>

AdapterConfigs == {"lora_all", "skilled"}

NextAdapters ==
    \/ /\ adapters.pc = "idle"
       /\ \E n \in Names, cfg \in AdapterConfigs :
             AddExpertInstance([name |-> n, cfg |-> cfg], None, "route", FALSE)
    \/ WithEnter
    \/ WithExitReturned
    \/ WithExitRaised

SpecAdapters == Init /\ [][NextAdapters]_vars

\* ------------------------------------------------------------------ claims
IsAdd(l) == l.op = "add_expert_instance"

\* the containers hosting a name
Hosts(name) == {l \in LayerSet : name \in containers[l].expert_infos}

\* C3: every successful add_expert_instance with action "route" adds exactly
\* one entry to experts_names (one call, one entry): an add under a name that
\* is already registered does not silently replace the entry.
C3_OneCallOneEntry ==
    [][ (IsAdd(last') /\ last'.action = "route" /\ last'.exc = None)
        => Cardinality(DOMAIN experts_infos') = Cardinality(DOMAIN experts_infos) + 1 ]_vars

\* C4: get_expert_instance(name), for a registered name hosted by at least
\* one container, returns an Expert (not None) whose weight keys are exactly
\* the "<layer_name>.<param>" keys of all the containers hosting the name,
\* wherever the containers that do not host it come in the visiting order.
C4_GetReturnsAllKeys ==
    (/\ last.op = "get_expert_instance"
     /\ last.name \in experts_names
     /\ Hosts(last.name) # {})
    => (/\ ~last.ret.none
        /\ last.ret.keys = UNION {LayerKeys(l) : l \in Hosts(last.name)})

\* C5: add_expert_instance with action "merge" returns None and leaves
\* experts_infos (hence experts_names) as it was before the call.
C5_MergeLeavesRegistry ==
    [][ (IsAdd(last') /\ last'.action = "merge")
        => (last'.ret.none /\ experts_infos' = experts_infos) ]_vars

C5_Witness ==
    /\ IsAdd(last) /\ last.action = "merge" /\ last.exc = None
    /\ experts_names # {}
    /\ last.name \notin experts_names

\* C6: add_expert_instance(expert, expert_name=n) leaves the caller's object
\* under its original name, whether the call succeeds or fails, and a
\* registry entry the call makes is made under n, not under the original name.
C6_RenameKeepsCaller ==
    [][ (IsAdd(last') /\ last'.arg # None)
        => (/\ last'.caller_kept
            /\ (DOMAIN experts_infos' \ DOMAIN experts_infos) \subseteq {last'.arg}
            /\ (last'.action = "route" /\ last'.exc = None
                  => last'.arg \in DOMAIN experts_infos')) ]_vars

C6_Witness ==
    /\ IsAdd(last) /\ last.arg # None /\ last.action = "route" /\ last.exc = None
    /\ last.arg \in experts_names
    /\ OtherName(last.arg) \notin experts_names

\* C7: containers of a modifier type with capacity C never hold more than C
\* experts, and an add raises ContainerFull only at a container that already
\* holds C experts (the call past the limit, never an earlier one); the
\* failed call leaves experts_infos and the containers as they were (the
\* earlier additions intact, the failed name not added) and the lock free.
CapacityRespected ==
    \A l \in LayerSet :
        ContainerCapacity(ContainerModifier(l)) > 0
        => Cardinality(containers[l].expert_infos) <= ContainerCapacity(ContainerModifier(l))

C7_ContainerFull ==
    /\ []CapacityRespected
    /\ [][ (IsAdd(last') /\ last'.exc = "ContainerFull")
           => (/\ \E l \in LayerSet :
                    /\ Cardinality(containers[l].expert_infos)
                          = ContainerCapacity(ContainerModifier(l))
                    /\ last'.name \notin containers[l].expert_infos
               /\ experts_infos' = experts_infos
               /\ containers' = containers
               /\ lockHeld' = {}) ]_vars

C7_Witness ==
    /\ IsAdd(last) /\ last.exc = "ContainerFull"
    /\ Cardinality(experts_names) = Capacity
    /\ \A n \in experts_names : experts_infos[n] = "skilled"
    /\ last.name \notin experts_names
    /\ lockHeld = {}

SomeInCritical == \E t \in Threads : InCritical(t)

\* C1: at most one thread at a time is inside the critical section of
\* add_expert_instance (injection and experts_infos bookkeeping), the very
\* first calls on a model included.
C1_MutualExclusion == Cardinality({t \in Threads : InCritical(t)}) <= 1

\* C2: while a thread is inside add_expert_instance's critical section, no
\* other call (set_default_expert, unset_default_expert, clear_experts,
\* delete_expert_container, set_selector) changes the containers or the
\* registry.
C2_MutatorsExcluded ==
    [][ (SomeInCritical /\ pc' = pc /\ th' = th)
        => UNCHANGED <<containers, experts_infos, selector_cache, selector_config>> ]_vars

\* C8: when add_experts_from_library returns and every worker succeeded,
\* experts_names is exactly the set of the library's keys.
AllWorkersSucceeded == \A t \in Threads : pc[t] = "done" /\ th[t].exc = None

C8_AllKeysRegistered ==
    (batch.pc = "returned" /\ AllWorkersSucceeded) => experts_names = LibKeys

\* C9: if a worker raised, add_experts_from_library does not return normally;
\* what it raises is the exception of one of the workers.
C9_FailFast ==
    /\ batch.pc = "returned" => \A t \in Threads : th[t].exc = None
    /\ batch.pc = "raised" =>
          /\ batch.exc # None
          /\ \E t \in Threads : pc[t] = "done" /\ th[t].exc = batch.exc

C9_Witness ==
    /\ batch.pc = "raised"
    /\ \E t \in Threads : th[t].exc # None
    /\ \E t \in Threads : th[t].exc = None

\* C10: a worker whose add_expert_instance raises leaves the lock free; every
\* submitted worker runs to completion and the batch call ends, by raising
\* when a worker raised, in every interleaving.
C10_BatchTerminates ==
    <>[](/\ batch.pc \in {"returned", "raised"}
         /\ (\E t \in Threads : th[t].exc # None) => batch.pc = "raised"
         /\ \A t \in Threads : pc[t] = "done"
         /\ lockHeld = {})

C10_Witness ==
    /\ batch.pc = "raised"
    /\ \E t \in Threads : th[t].exc # None /\ th[t].lk # None
    /\ \A t \in Threads : pc[t] = "done"
    /\ lockHeld = {}

\* C11: between calls, every name in experts_names is hosted by at least
\* one container, whatever adds (successful or failing) came before.
C11_RegisteredIsHosted == \A n \in experts_names : Hosts(n) # {}

\* C12: between calls, every container's default_expert_name is None or a
\* name in experts_names, whatever adds (with or without is_default),
\* set_default_expert, unset_default_expert and clear_experts came before.
C12_DefaultIsRegistered ==
    \A l \in LayerSet :
        containers[l].default_expert_name \in {None} \cup experts_names

\* C13: between calls, the experts of every container are registered names,
\* also after an add that failed part-way through the fan-out.
C13_HostedIsRegistered ==
    \A l \in LayerSet : containers[l].expert_infos \subseteq experts_names

\* C14: set_default_expert(name) with a registered name succeeds; after it
\* every container hosting the name has it as default and every other
\* container keeps its default.
C14_SetDefaultPropagates ==
    [][ (last'.op = "set_default_expert" /\ last'.name \in DOMAIN experts_infos)
        => (/\ last'.exc = None
            /\ \A l \in LayerSet :
                  containers'[l].default_expert_name =
                      IF last'.name \in containers[l].expert_infos
                      THEN last'.name
                      ELSE containers[l].default_expert_name) ]_vars

\* C15: after clear_experts returns, experts_names is empty, the selectors
\* cache holds no live selector, and no container keeps experts or a default.
C15_ClearEmpties ==
    [][ last'.op = "clear_experts"
        => (/\ DOMAIN experts_infos' = {}
            /\ \A m \in Modifiers : ~selector_cache'[m].live
            /\ \A l \in LayerSet :
                  /\ containers'[l].expert_infos = {}
                  /\ containers'[l].default_expert_name = None
                  /\ ~containers'[l].exists) ]_vars

C15_Witness ==
    /\ last.op = "clear_experts"
    /\ last.cleared = Names
    /\ experts_names = {}
    /\ \A m \in Modifiers : ~selector_cache[m].live

\* the selector configuration an add resolves for modifier type m
Resolved(sc, m) == GetSelectorConfig(SelectorConfigRead(sc).val, m)

\* C16: clear_experts leaves the model as a freshly constructed one: no
\* containers, no registered names, no selectors, and for every modifier
\* type the selector configuration a later add resolves is the one of the
\* model's config.
C16_ClearIsFresh ==
    [][ last'.op = "clear_experts"
        => (/\ containers' = ClearContainers
            /\ experts_infos' = EmptyInfos
            /\ selector_cache' = EmptyCache
            /\ \A m \in Modifiers :
                  Resolved(selector_config', m) = GetSelectorConfig(config, m)) ]_vars

\* C17: after set_selector(m, cfg), selector_config is a per-modifier-type
\* mapping whose entry, for every modifier type with a live selector, is that
\* selector's config; with containers of type m the entry for m is cfg.
C17_SelectorConfigFollows ==
    [][ last'.op = "set_selector"
        => (/\ selector_config'.set
            /\ selector_config'.val.kind = "multi"
            /\ \A m \in Modifiers :
                  selector_cache'[m].live
                  => selector_config'.val.multi[m] = selector_cache'[m].config
            /\ (\E l \in LayerSet :
                    containers[l].exists /\ ContainerModifier(l) = last'.name)
                => (/\ selector_cache'[last'.name].live
                    /\ selector_config'.val.multi[last'.name] = last'.arg)) ]_vars

C17_Witness ==
    /\ last.op = "set_selector"
    /\ selector_cache[last.name].live
    /\ GetSelectorConfig(config, last.name) = "s1"
    /\ selector_config.val.multi[last.name] = "s2"
    /\ \E m \in Modifiers : m # last.name /\ selector_cache[m].live

\* C18: all the calls of the threads are handed one and the same
\* SelectorsCache object: the lazily created cache is created once.
C18_OneSelectorsCache ==
    \A t, u \in Threads :
        (th[t].cache # None /\ th[u].cache # None) => th[t].cache = th[u].cache

\* C19: the scenario (A, B, top_k = 1.0, "mean") ends with the merged
\* vector [5, -5, 3, -3, 0, 0, 0, 0, 0, 0]: the trim is defined for top_k = 1
\* and removes nothing.
ScenarioMerged ==
    [i \in 1..10 |-> [num |-> ScenarioA[i] + ScenarioB[i], den |-> 1]]

C19_ScenarioMerges ==
    (/\ ties.tv_flat_checks = <<ScenarioA, ScenarioB>>
     /\ ties.top_k = 100
     /\ ties.pc # "input")
    => (/\ ties.pc # "raised"
        /\ ties.updated_checks = ties.tv_flat_checks
        /\ (ties.pc = "merged" /\ ties.merge_func = "mean")
           => ties.merged_tv = ScenarioMerged)

\* C20: the trimmed rows are the rows under the rank-based mask (entries of
\* magnitude >= the k-th smallest magnitude, k = d - floor(d * top_k)), and
\* a row of pairwise distinct magnitudes keeps exactly d - k entries.
DistinctMagnitudes(row) ==
    \A i, j \in 1..Len(row) : i # j => Abs(row[i]) # Abs(row[j])

C20_RankMaskApplied ==
    ties.pc = "trimmed"
    => \A r \in 1..Len(ties.tv_flat_checks) :
          LET row == ties.tv_flat_checks[r]
              d == Len(row)
              mask_ == RankMask(row, ties.top_k)
          IN /\ ties.updated_checks[r] = [i \in 1..d |-> IF mask_[i] THEN row[i] ELSE 0]
             /\ DistinctMagnitudes(row)
                => Cardinality({i \in 1..d : mask_[i]}) = d - TrimK(d, ties.top_k)

\* C21: after sign resolution (majority policy) an element whose column sum
\* over the trimmed rows is non-zero has the sign of that sum, and all the
\* elements whose column sum is zero have one value, the sign of the sum of
\* the per-element signs.
ColumnSign(i) == Sign(ColSum(ties.updated_checks, i))

C21_MajorityResolution ==
    ties.pc \in {"signed", "merged"}
    => LET d == Len(ties.final_signs)
           majority == Sign(SumTo([i \in 1..d |-> ColumnSign(i)], d))
       IN /\ d = Len(ties.tv_flat_checks[1])
          /\ \A i \in 1..d :
                /\ ColumnSign(i) # 0 => ties.final_signs[i] = ColumnSign(i)
                /\ ColumnSign(i) = 0 => ties.final_signs[i] = majority
          /\ \A i, j \in 1..d :
                (ColumnSign(i) = 0 /\ ColumnSign(j) = 0)
                => ties.final_signs[i] = ties.final_signs[j]

C21_Witness ==
    /\ ties.pc = "signed"
    /\ \E i, j, l \in 1..Len(ties.final_signs) :
          /\ i # j
          /\ ColumnSign(i) = 0 /\ ColumnSign(j) = 0
          /\ ColumnSign(l) < 0
          /\ ties.final_signs[i] = 0 - 1

\* C22: in the disjoint merge only the entries whose sign agrees with the
\* resolved sign of their element are selected; with "mean" the element is
\* the sum of the selected entries over max(1, their number), so it is 0
\* where no expert contributes, and otherwise has the resolved sign and a
\* magnitude of at most the largest selected magnitude.
Agreeing(i) ==
    {r \in 1..Len(ties.updated_checks) :
        /\ ties.updated_checks[r][i] # 0
        /\ Sign(ties.updated_checks[r][i]) = ties.final_signs[i]}

AgreeingSum(i) ==
    SumTo([r \in 1..Len(ties.updated_checks) |->
              IF r \in Agreeing(i) THEN ties.updated_checks[r][i] ELSE 0],
          Len(ties.updated_checks))

C22_DisjointMean ==
    (ties.pc = "merged" /\ ties.merge_func = "mean")
    => \A i \in 1..Len(ties.merged_tv) :
          LET e == ties.merged_tv[i] IN
          /\ e.num = AgreeingSum(i)
          /\ e.den = MaxOf({1, Cardinality(Agreeing(i))})
          /\ Agreeing(i) = {} => e.num = 0
          /\ e.num # 0
             => /\ Sign(e.num) = ties.final_signs[i]
                /\ Abs(e.num) <= e.den * MaxOf({Abs(ties.updated_checks[r][i]) :
                                                   r \in Agreeing(i)})

\* C23: when at every element all the experts contribute values of one
\* sign and top_k = 1, the merge ends and equals the elementwise mean, sum,
\* or largest magnitude with the common sign, of the raw inputs.
IdenticalSigns(M) ==
    \A i \in 1..Len(M[1]) :
        \E g \in {0 - 1, 1} : \A r \in 1..Len(M) : Sign(M[r][i]) = g

RawMerge(M, merge_func) ==
    [i \in 1..Len(M[1]) |->
        IF merge_func = "mean" THEN [num |-> ColSum(M, i), den |-> Len(M)]
        ELSE IF merge_func = "sum" THEN [num |-> ColSum(M, i), den |-> 1]
        ELSE [num |-> Sign(M[1][i]) * MaxOf({Abs(M[r][i]) : r \in 1..Len(M)}),
              den |-> 1]]

C23_IdenticalSignsReduce ==
    (/\ IdenticalSigns(ties.tv_flat_checks)
     /\ ties.top_k = 100
     /\ ties.pc # "input")
    => (/\ ties.pc # "raised"
        /\ ties.pc = "merged"
           => ties.merged_tv = RawMerge(ties.tv_flat_checks, ties.merge_func))

C25_ShapeMismatchFails ==
    tvapply.pc \in {"returned", "raised"}
    => \A i \in 1..Len(ParamNames) :
          LET name == SplitWeight(ParamNames[i])
              param == tvapply.params[i]
              zero == ZeroTensor(param.shape)
          IN IF name \notin TaskKeys \/ tvapply.given[name] = NoTensor
             THEN param = zero
             ELSE LET delta == tvapply.given[name] IN
                  IF delta.shape = param.shape
                  THEN tvapply.pc = "returned" => param = AddCopy(zero, delta)
                  ELSE IF Transpose(delta).shape = param.shape
                  THEN tvapply.pc = "returned"
                       => param = AddCopy(zero, Transpose(delta))
                  ELSE tvapply.pc = "raised" /\ param = zero

\* C26: add_empty_experts adds e0, e1, ... in order; at the first
\* ContainerFull, at index i, the loop stops: the exception does not leave
\* the call, no later index is attempted, and e0..e(i-1) stay registered.
C26_StopsWhenFull ==
    [][ last'.op = "add_empty_experts"
        => LET tried == last'.attempted IN
           /\ \A j \in 1..Len(tried) : tried[j] = NamePool[j]
           /\ last'.exc # "ContainerFull"
           /\ last'.full_at # <<>>
              => LET i == last'.full_at[1] IN
                 /\ last'.exc = None
                 /\ Len(tried) = i + 1
                 /\ \A j \in 1..i : NamePool[j] \in DOMAIN experts_infos'
                 /\ NamePool[i + 1] \notin DOMAIN experts_infos' \ DOMAIN experts_infos
           /\ (last'.full_at = <<>> /\ last'.exc = None)
              => Len(tried) = last'.arg ]_vars

C26_Witness ==
    /\ last.op = "add_empty_experts"
    /\ last.full_at # <<>>
    /\ last.full_at[1] >= 1
    /\ last.full_at[1] + 1 < last.arg
    /\ last.exc = None

\* C27: when the config's default_expert_name is one of the names the
\* construction registers (from config.expert_infos, or from the library of
\* from_pretrained_library), the model is constructed and that expert is the
\* default on every container hosting it.
C27_DefaultAfterConstruction ==
    [][ (/\ last'.op \in {"__init__", "from_pretrained_library"}
         /\ last'.name # None
         /\ last'.name \in last'.cleared
         /\ last'.exc # "ContainerFull")
        => /\ last'.exc = None
           /\ last'.name \in DOMAIN experts_infos'
           /\ \A l \in LayerSet :
                 (containers'[l].exists /\ last'.name \in containers'[l].expert_infos)
                 => containers'[l].default_expert_name = last'.name ]_vars

\* C28: once a with disable_adapters(model) block has been left, by a body
\* that returned or by one that raised, every adapter is enabled again.
C28_AdaptersReenabled ==
    adapters.pc = "idle" => adapters.disabled = {}

\* C29: a set_default_expert(name) that raises leaves the default of every
\* container as it was before the call.
C29_SetDefaultAllOrNothing ==
    [][ (last'.op = "set_default_expert" /\ last'.exc # None)
        => \A l \in LayerSet :
              containers'[l].default_expert_name = containers[l].default_expert_name
      ]_vars

\* C30: set_selector(m, cfg) leaves the selector configuration of every
\* other modifier type as it was: a type that had a configuration before the
\* call, with or without a live selector, resolves to the same one after it.
C30_SetSelectorFrame ==
    [][ last'.op = "set_selector"
        => \A m \in Modifiers \ {last'.name} :
              Resolved(selector_config, m) # None
              => Resolved(selector_config', m) = Resolved(selector_config, m) ]_vars

\* C31: after a MoEModel is constructed, moe_num_experts equals
\* len(experts_names), whether the experts were created empty (also when the
\* loop stopped at a ContainerFull) or loaded from a library.
C31_NumExpertsMatchesRegistry ==
    [][ (last'.op = "MoEModel.__init__" /\ last'.exc = None)
        => moe_num_experts_attr' = <<Cardinality(experts_names')>> ]_vars

====
